---- MODULE Spec2Model ----
(***************************************************************************)
(* Model of the Twitter client of gods-gen-image:                          *)
(*   RequestQueue            packages/client-twitter/src/types.ts          *)
(*   ClientBase              packages/client-twitter/src/index.ts          *)
(*   TwitterInteractionClient packages/client-twitter/src/interactions.ts  *)
(*   TwitterPostClient       packages/client-twitter/src/post.ts           *)
(***************************************************************************)
EXTENDS Integers, Sequences, FiniteSets, TLC

(***************************************************************************)
(* Bounds of the model.                                                    *)
(***************************************************************************)
MaxSubmit == 3
MaxTasks == 2
MaxBatch == 2
MaxInteractions == 1
MaxConcurrent == 2
MaxTicks == 1
CountCap == 2
MaxStarts == 2
MaxCycles == 2
MaxPosts == 2
MaxClock == 3
MaxClients == 2

(***************************************************************************)
(* RequestQueue (types.ts:43-54).                                          *)
(*                                                                         *)
(* `queue' is the promise chain of the class, kept as the sequence of the  *)
(* links add() has appended to it, in the order of the add() calls.  A     *)
(* link is the three promises add() builds for one task:                   *)
(*    p1   = this.queue.then(() => fn())                                   *)
(*    p2   = p1.then(resolve)           (settles the caller's promise)     *)
(*    link = p2.catch(reject)           (the new value of this.queue)      *)
(***************************************************************************)
VARIABLES queue, startOrder

queueVars == <<queue, startOrder>>

(***************************************************************************)
(* ClientBase (index.ts:142-1274): its fields, the platform calls that are *)
(* in flight, the calls of handleTweetInteraction made so far, and what    *)
(* the client has done: the ids the last call of fetchSearchTweets has     *)
(* skipped as processed or as old (skipped), the tweets that call returned *)
(* (returned), how often an id was returned (acceptCount), the tweet       *)
(* handleTweetInteraction last went on to classify (classified), how often *)
(* generateImage was called for an id (imageCount) and the tweet it was    *)
(* last called for (imageTweet).  classified and imageTweet hold at most   *)
(* one tweet; the counts stop at CountCap.                                 *)
(***************************************************************************)
VARIABLES initializationTime, processedTweets, inflight,
          skipped, returned, acceptCount, interactions, classified,
          imageCount, imageTweet

baseVars == <<initializationTime, processedTweets, inflight,
              skipped, returned, acceptCount, interactions, classified,
              imageCount, imageTweet>>

\* A missing tweet id and a missing timestamp.  Every test the client makes
\* on them is a truthiness test (!tweet.id, !tweet.timestamp,
\* tweet.timestamp ? .. : ..), which the empty string and 0 fail exactly as
\* undefined does.
NoId == ""
NoTimestamp == 0

Outcomes == {"fulfilled", "rejected"}

\* The link add() appends for a task whose function is fn (types.ts:47-52):
\* nothing of it has run when add() returns.
\* `by' is the promise that settled p1 (the platform call or, in a race,
\* the timeout), `timer', `returned' and `owner' belong to the caller of
\* add() (ClientBase, below).
NewTask(fn) ==
    [fn |-> fn, stage |-> "waiting", ran |-> FALSE,
     p1 |-> "pending", caller |-> "pending", link |-> "pending",
     by |-> "none", timer |-> "none", returned |-> FALSE, owner |-> 0]

\* (Variant: add() does not store the new link, so that every link is
\* chained to the initial Promise.resolve().)
ChainTailUnstored(q, k) == "fulfilled"

\* (Variant: the reaction of p1 calls fn without returning its promise, so
\* that the link settles as soon as fn has been called.)
ChainTailUnawaited(q, k) ==
    IF k = 1 THEN "fulfilled"
    ELSE IF q[k - 1].ran THEN "fulfilled" ELSE q[k - 1].link

\* types.ts:44 and 48: the promise a link is chained to.  The first link is
\* chained to Promise.resolve(), every later one to the link before it,
\* because add() stores each new link back into this.queue.
ChainTail(q, k) ==
    IF k = 1 THEN "fulfilled" ELSE q[k - 1].link

\* (Variant: p1.then(resolve) without the catch: a rejection of p1 never
\* reaches the caller.)
CallerOutcomeUnrejected(p1) ==
    IF p1 = "fulfilled" THEN "fulfilled" ELSE "pending"

\* types.ts:50-51: p1.then(resolve).catch(reject) settles the caller's
\* promise the way p1 settled.
CallerOutcome(p1) ==
    IF p1 = "fulfilled" THEN "fulfilled" ELSE "rejected"

\* (Variant: the chain stored in this.queue is not ended by a catch, so
\* that a rejected task leaves a rejected link.)
LinkOutcomeUncaught(p1) == p1

\* types.ts:51: the link ends in .catch(reject); reject() returns undefined,
\* so the link is fulfilled whether p1 was fulfilled or rejected.
LinkOutcome(p1) == "fulfilled"

\* RequestQueue.add (types.ts:46-53).  The executor of new Promise runs
\* synchronously, so the link is appended before add() returns.
add(fn) ==
    queue' = Append(queue, NewTask(fn))

\* The reaction `() => fn()' of p1 (types.ts:49).  It runs once the promise
\* the link is chained to has settled: fn is invoked only when that promise
\* is fulfilled, a rejection passes through p1 without invoking fn.  `sync'
\* says whether fn throws before returning a promise.
RunTask(k, sync) ==
    /\ k \in 1..Len(queue)
    /\ queue[k].stage = "waiting"
    /\ ChainTail(queue, k) # "pending"
    /\ IF ChainTail(queue, k) = "fulfilled"
         THEN /\ startOrder' = Append(startOrder, k)
              /\ queue' = [queue EXCEPT ![k] =
                    IF sync
                      THEN [@ EXCEPT !.ran = TRUE, !.stage = "p1Done",
                                     !.p1 = "rejected"]
                      ELSE [@ EXCEPT !.ran = TRUE, !.stage = "running"]]
         ELSE /\ startOrder' = startOrder
              /\ queue' = [queue EXCEPT ![k] =
                    [@ EXCEPT !.stage = "p1Done", !.p1 = "rejected"]]

\* The promise returned by fn settles with outcome o, settled by `by'
\* (types.ts:49).  A timeout timer of the caller is of no effect from here
\* on ("spent"), fired or not.
SettleFn(k, o, by) ==
    /\ k \in 1..Len(queue)
    /\ queue[k].stage = "running"
    /\ queue' = [queue EXCEPT ![k] =
          [@ EXCEPT !.stage = "p1Done", !.p1 = o, !.by = by,
                    !.timer = IF @ = "none" THEN "none" ELSE "spent"]]
    /\ UNCHANGED startOrder

\* resolve or reject of the promise add() returned is called (types.ts:50-51).
SettleCaller(k) ==
    /\ k \in 1..Len(queue)
    /\ queue[k].stage = "p1Done"
    /\ queue' = [queue EXCEPT ![k] =
          [@ EXCEPT !.stage = "callerDone", !.caller = CallerOutcome(queue[k].p1)]]
    /\ UNCHANGED startOrder

\* The link itself settles (types.ts:51).
SettleLink(k) ==
    /\ k \in 1..Len(queue)
    /\ queue[k].stage = "callerDone"
    /\ queue' = [queue EXCEPT ![k] =
          [@ EXCEPT !.stage = "linkDone", !.link = LinkOutcome(queue[k].p1)]]
    /\ UNCHANGED startOrder

(***************************************************************************)
(* TwitterInteractionClient (interactions.ts:490-686): its fields, the     *)
(* interval timers start() has created and stop() has not cleared, the     *)
(* polling cycles begun so far (how many tweets of its batch the loop of    *)
(* processTweets has left, and the tweet it is waiting on), and what the   *)
(* last timer tick did.                                                    *)
(***************************************************************************)
VARIABLES variant, processingTimer, timers, timerCount,
          isProcessingActions, cycles, lastTick

pollVars == <<variant, processingTimer, timers, timerCount,
              isProcessingActions, cycles, lastTick>>

\* interactions.ts holds two declarations of the class, at lines 114-327
\* and at lines 490-686, which differ in processTweets; variant says which
\* of them the client is an instance of.
Variants == {1, 2}

\* processingTimer = null (interactions.ts:496).
NoTimer == 0

(***************************************************************************)
(* TwitterPostClient (post.ts:29-290): its fields, the calls of postTweet  *)
(* made so far, the clock (what Date.now() answers, in ms), and what the   *)
(* client has done: the time of its last submission to the platform and    *)
(* the time between its last two submissions.                              *)
(***************************************************************************)
VARIABLES isDryRun, lastPostTime, posts, now, lastSubmit, submitGap

postVars == <<isDryRun, lastPostTime, posts, now, lastSubmit, submitGap>>

\* No submission, or no two submissions, so far.
NoTime == -1

(***************************************************************************)
(* The ClientBase objects constructed so far and TwitterClientInterface.    *)
(* start (index.ts:37-48, 142-300).  clients[1] is the client of the       *)
(* manager start() has built; an object has the account identifier it was  *)
(* built for, the platform client it holds (twitterClient, a number naming *)
(* the Scraper object), whether its profile is set and whether it has      *)
(* emitted 'ready', and where its init() is.  twitterClients is the static *)
(* map ClientBase._twitterClients, scrapers the number of Scraper objects  *)
(* made so far, startCall where the call of start() is.                    *)
(***************************************************************************)
VARIABLES clients, twitterClients, scrapers, startCall

startVars == <<clients, twitterClients, scrapers, startCall>>

\* `${TWITTER_USERNAME}:${TWITTER_PASSWORD}` (index.ts:171).
Accounts == {"agent:pw", "other:pw"}

\* No entry in ClientBase._twitterClients.
NoScraper == 0

\* A ClientBase as its constructor leaves it (index.ts:147, 171-193).
NewClient(account, scraper) ==
    [account |-> account, twitterClient |-> scraper, profile |-> FALSE,
     ready |-> FALSE, pc |-> "built"]

(***************************************************************************)
(* What the parts of the program share: the configuration the client was   *)
(* built from (twitterConfig, index.ts:22-24, of which the model keeps     *)
(* TWITTER_DRY_RUN), whether the ClientBase object carries the `post'      *)
(* property the interaction client replies through (clientPost,            *)
(* interactions.ts:378-384, 630, 649), and the entries written to          *)
(* runtime.cacheManager, as pairs <<key, value>> (cacheManager).           *)
(***************************************************************************)
VARIABLES twitterConfig, clientPost, cacheManager

builtVars == <<twitterConfig, clientPost>>

\* runtime.cacheManager.set(key, value): the entry of the key is replaced.
CacheSet(cache, key, value) ==
    { e \in cache : e[1] # key } \cup {<<key, value>>}

\* The keys the modelled operations write: twitter/tweets/<id> for the
\* tweet a tweet replies to (index.ts:314) and twitter/<username>/lastPost
\* (post.ts:259-260).
TweetKey == <<"twitter/tweets", "inReplyToStatusId">>
LastPostKey == <<"twitter/username", "lastPost">>

(***************************************************************************)
(* Tweets.  A text is the sequence of its words, in lower case.            *)
(***************************************************************************)
Ids == {"a", "b"}

BotHandle == "@bot"

RequestText == <<"@bot", "generate", "image", "cat">>
BareRequestText == <<"@bot", "generate", "image">>
ChatText == <<"@bot", "hello">>
PlainRequestText == <<"generate", "image", "cat">>

Tweet(id, ts, text, reply) ==
    [id |-> id, timestamp |-> ts, text |-> text, inReplyToStatusId |-> reply]

\* What the platform search can answer with: two tweets of one id, one
\* from before the start of the client (InitTimes) and one from the very
\* millisecond of the start, a tweet of another id, a tweet without id and
\* a tweet without timestamp.
SearchTweets ==
    { Tweet("a", 2, RequestText, FALSE),
      Tweet("a", 3, RequestText, FALSE),
      Tweet("b", 4, ChatText, FALSE),
      Tweet(NoId, 3, RequestText, FALSE),
      Tweet("b", NoTimestamp, RequestText, FALSE) }

\* What handleTweetInteraction can be called with.
Tweets ==
    SearchTweets \cup
    { Tweet("a", 3, PlainRequestText, TRUE),
      Tweet("b", 3, BareRequestText, TRUE),
      Tweet("a", 3, <<>>, FALSE) }

\* What the platform search can answer with in a polling cycle: as above,
\* and tweets that spell the handle and the keywords in another letter
\* case, that lack the handle, or that hold nothing but the handle and the
\* keywords.
PollTweets ==
    { Tweet("a", 2, RequestText, FALSE),
      Tweet("a", 3, RequestText, FALSE),
      Tweet("b", 4, ChatText, FALSE),
      Tweet(NoId, 3, RequestText, FALSE),
      Tweet("b", 4, <<"@Bot", "Generate", "IMAGE", "cat">>, FALSE),
      Tweet("b", 4, <<"hello">>, FALSE),
      Tweet("b", 4, PlainRequestText, FALSE),
      Tweet("a", 3, BareRequestText, FALSE),
      Tweet(NoId, 3, BareRequestText, FALSE) }

SeqsUpTo(S, n) == UNION { [1..m -> S] : m \in 0..n }

Batches == SeqsUpTo(SearchTweets, MaxBatch)

InitTimes == {3000}

Range(f) == { f[x] : x \in DOMAIN f }

\* text.includes(word), on lower-cased text.
Includes(text, word) == word \in Range(text)

\* toLowerCase() on a word.
ToLowerCase(w) ==
    CASE w = "@Bot" -> "@bot"
      [] w = "Generate" -> "generate"
      [] w = "IMAGE" -> "image"
      [] OTHER -> w

LowerCase(text) == [i \in DOMAIN text |-> ToLowerCase(text[i])]

\* text.replace(/@\w+/g, '') (index.ts:1172, interactions.ts:266, 607).
IsMentionWord(w) == ToLowerCase(w) = BotHandle
RemoveMentions(text) == SelectSeq(text, LAMBDA w : ~IsMentionWord(w))

(***************************************************************************)
(* ClientBase.fetchSearchTweets (index.ts:511-593).                        *)
(***************************************************************************)

\* The platform call a queued task makes, and the one a polling cycle makes.
QueueCall(k) == <<"queue", k>>

\* (Variant: the set is started anew with the id.)
MarkProcessedAnew(processed, id) == {id}

\* this.processedTweets.add(id) (index.ts:574, 1137, 1167, 1175, 1209).
MarkProcessed(processed, id) == processed \cup {id}

\* The body of the filter callback (index.ts:546-576) for one tweet, given
\* the processed set at that point of the batch: the first test that
\* rejects the tweet, or "accept".
VerdictUnremembered(tweet, processed, initTime) ==
    IF tweet.timestamp = NoTimestamp \/ tweet.id = NoId THEN "malformed"
    ELSE IF ~(tweet.timestamp * 1000 >= initTime) THEN "old"
    ELSE "accept"

VerdictAnyAge(tweet, processed, initTime) ==
    IF tweet.timestamp = NoTimestamp \/ tweet.id = NoId THEN "malformed"
    ELSE IF tweet.id \in processed THEN "processed"
    ELSE "accept"

Verdict(tweet, processed, initTime) ==
    IF tweet.timestamp = NoTimestamp \/ tweet.id = NoId THEN "malformed"
    ELSE IF tweet.id \in processed THEN "processed"
    ELSE IF ~(tweet.timestamp * 1000 >= initTime) THEN "old"
    ELSE "accept"

ShouldAccept(tweet, processed, initTime) ==
    Verdict(tweet, processed, initTime) = "accept"

\* result.tweets.filter(..) (index.ts:546-576): the tweets are visited in
\* order and an accepted id is added to processedTweets at once, so that a
\* later tweet of the batch sees it.
RECURSIVE FilterTweets(_, _, _)
FilterTweets(batch, processed, initTime) ==
    IF batch = <<>>
      THEN [tweets |-> <<>>, processed |-> processed, skipped |-> {}]
      ELSE LET t == Head(batch)
               ok == ShouldAccept(t, processed, initTime)
               rest == FilterTweets(Tail(batch),
                          IF ok THEN MarkProcessed(processed, t.id)
                                ELSE processed,
                          initTime)
           IN  [tweets |-> IF ok THEN <<t>> \o rest.tweets ELSE rest.tweets,
                processed |-> rest.processed,
                skipped |-> IF Verdict(t, processed, initTime)
                                   \in {"processed", "old"}
                              THEN rest.skipped \cup
                                   {<<t.id, Verdict(t, processed, initTime)>>}
                              ELSE rest.skipped]

\* A count raised by n, up to CountCap.
Counted(count, n) ==
    IF count + n < CountCap THEN count + n ELSE CountCap

\* Number of tweets of a sequence that carry the id.
RECURSIVE CountId(_, _)
CountId(seq, id) ==
    IF seq = <<>> THEN 0
    ELSE (IF Head(seq).id = id THEN 1 ELSE 0) + CountId(Tail(seq), id)

\* fetchSearchTweets up to its await (index.ts:517-543): the timeout timer
\* is armed (527-529), then the search is handed to the queue (532).
fetchSearchTweets ==
    /\ Len(queue) < MaxTasks
    /\ queue' = Append(queue, [NewTask("search") EXCEPT !.timer = "armed"])
    /\ UNCHANGED <<startVars, builtVars, cacheManager, startOrder, baseVars, pollVars, postVars>>

\* A promise reaction of the queue is due: a task whose turn it is has not
\* been started, or a settled task has not settled its caller or its link
\* (types.ts:49-51).
ReactionDue ==
    \E j \in DOMAIN queue :
       \/ queue[j].stage = "waiting" /\ ChainTail(queue, j) # "pending"
       \/ queue[j].stage \in {"p1Done", "callerDone"}

\* The 15 s timer of index.ts:528 fires and resolves timeoutPromise.  (Once
\* the race is settled the timer has no effect any more.)  A timer callback
\* runs only when no promise reaction is due, so that the task of an idle
\* queue has been started before its timer can fire; and the timers, all
\* of 15 s, fire in the order in which they were armed.
TimeoutFires(k) ==
    /\ k \in 1..Len(queue)
    /\ queue[k].timer = "armed"
    /\ queue[k].p1 = "pending"
    /\ ~ReactionDue
    /\ \A j \in 1..(k - 1) : queue[j].timer # "armed"
    /\ queue' = [queue EXCEPT ![k] = [@ EXCEPT !.timer = "fired"]]
    /\ UNCHANGED <<startVars, builtVars, cacheManager, startOrder, baseVars, pollVars, postVars>>

\* The queue runs a task of the client (index.ts:368-370, 533-542, 953-954):
\* its function issues the platform call.
RunQueued(k) ==
    /\ RunTask(k, FALSE)
    /\ inflight' = IF ChainTail(queue, k) = "fulfilled"
                     THEN inflight \cup {QueueCall(k)} ELSE inflight
    /\ UNCHANGED <<startVars, builtVars, cacheManager, postVars, pollVars, initializationTime, processedTweets,
                   skipped, returned, acceptCount, interactions, classified,
                   imageCount, imageTweet>>

\* Promise.race (index.ts:534-542) is won by timeoutPromise: the task is
\* fulfilled with { tweets: [] }; the search itself is not cancelled.
RaceTimeout(k) ==
    /\ k \in 1..Len(queue)
    /\ queue[k].fn = "search"
    /\ queue[k].timer = "fired"
    /\ SettleFn(k, "fulfilled", "timeout")
    /\ UNCHANGED <<startVars, builtVars, cacheManager, baseVars, pollVars, postVars>>

\* The platform answers the call of task k, with a value or an error.  The
\* answer settles the task if it is still running; an answer to a search
\* that has lost the race is dropped.  The value of the answer is drawn
\* where the caller first looks at it (fetchSearchTweetsReturn,
\* getTweetReturn): nothing depends on it before.
PlatformAnswers(k, o) ==
    /\ QueueCall(k) \in inflight
    /\ inflight' = inflight \ {QueueCall(k)}
    /\ IF queue[k].stage = "running"
         THEN SettleFn(k, o, "platform")
         ELSE UNCHANGED queueVars
    /\ UNCHANGED <<startVars, builtVars, cacheManager, postVars, pollVars, initializationTime, processedTweets,
                   skipped, returned, acceptCount, interactions, classified,
                   imageCount, imageTweet>>

\* The microtask steps of the queue.
QueueSettles(k) ==
    /\ (SettleCaller(k) \/ SettleLink(k))
    /\ UNCHANGED <<startVars, builtVars, cacheManager, baseVars, pollVars, postVars>>

\* What the race of a search task was fulfilled with (index.ts:528,
\* 534-542): the tweets of the platform, or none when the timeout won.
SearchResults(by) ==
    IF by = "timeout" THEN {<<>>} ELSE Batches

\* What fetchSearchTweets resolves with (index.ts:545-592): the filtered
\* tweets when the promise of the queue was fulfilled with tweets, no
\* tweets from its catch block when it was rejected (585-591).
FetchResult(outcome, tweets, processed, initTime) ==
    IF outcome = "fulfilled"
      THEN FilterTweets(tweets, processed, initTime)
      ELSE [tweets |-> <<>>, processed |-> processed, skipped |-> {}]

\* fetchSearchTweets after its await (index.ts:545-592): the result
\* (tweets) is filtered and returned; a rejection is answered with no
\* tweets.
fetchSearchTweetsReturn(k, tweets) ==
    /\ k \in 1..Len(queue)
    /\ queue[k].fn = "search"
    /\ queue[k].caller # "pending"
    /\ ~queue[k].returned
    /\ tweets \in SearchResults(queue[k].by)
    /\ queue[k].caller = "rejected" => tweets = <<>>
    /\ LET f == FetchResult(queue[k].caller, tweets, processedTweets,
                             initializationTime)
       IN  /\ processedTweets' = f.processed
           /\ skipped' = f.skipped
           /\ returned' = f.tweets
           /\ acceptCount' =
                 [id \in Ids |->
                    Counted(acceptCount[id], CountId(f.tweets, id))]
    /\ queue' = [queue EXCEPT ![k] = [@ EXCEPT !.returned = TRUE]]
    /\ UNCHANGED <<startVars, builtVars, cacheManager, postVars, pollVars, startOrder, initializationTime, inflight,
                   interactions, classified, imageCount, imageTweet>>

(***************************************************************************)
(* ClientBase.handleImageGenerationRequest (index.ts:1053-1120).           *)
(***************************************************************************)

\* (Variant: generateImage is called whatever the prompt.)
InvokesGeneratorAlways(prompt) == TRUE

\* index.ts:1063-1071: generateImage is called unless the prompt is empty
\* or blank.
InvokesGenerator(prompt) == prompt # <<>>

\* What generateImage answers (index.ts:1067-1071, 1081): an image, a
\* result with success = false, a result without data, or an exception;
\* and the answer there is when it was not called.
GeneratorResults == {"image", "unsuccessful", "noData", "throws"}
NotCalled == "notCalled"

\* What handleImageGenerationRequest(tweet, prompt) returns (index.ts:
\* 1059-1119): an attachment whose url is the first element of the data of
\* the generator (1094-1107), or null ("none") from its catch block.
Attachment(prompt, result) ==
    IF InvokesGenerator(prompt) /\ result = "image" THEN "generator"
                                                     ELSE "none"

\* The record of generateImage calls after a call of
\* handleImageGenerationRequest(tweet, prompt).
ImageCountAfter(tweet, prompt) ==
    IF InvokesGenerator(prompt) /\ tweet.id \in Ids
      THEN [imageCount EXCEPT ![tweet.id] = Counted(@, 1)] ELSE imageCount

ImageTweetAfter(tweet, prompt) ==
    IF InvokesGenerator(prompt) THEN <<tweet>> ELSE imageTweet

(***************************************************************************)
(* ClientBase.handleTweetInteraction (index.ts:1122-1211).                 *)
(***************************************************************************)

\* index.ts:1129: the time of a tweet in ms, Date.now() when it has none.
TweetTimestamp(tweet, clock) ==
    IF tweet.timestamp # NoTimestamp THEN tweet.timestamp * 1000 ELSE clock

\* index.ts:1123-1147: the guards before the try block.  "missing" and
\* "seen" return at once, "stale" marks the id processed and returns.
Guard(tweet, processed, initTime, clock) ==
    IF tweet.id = NoId \/ tweet.text = <<>> THEN "missing"
    ELSE IF TweetTimestamp(tweet, clock) < initTime THEN "stale"
    ELSE IF tweet.id \in processed THEN "seen"
    ELSE "process"

\* index.ts:1184: the cleaned text asks for an image.
IsImageRequest(imagePrompt) ==
    Includes(imagePrompt, "generate") /\ Includes(imagePrompt, "image")

\* A call of handleTweetInteraction that has returned.
Finished == [tweet |-> Tweet(NoId, NoTimestamp, <<>>, FALSE), pc |-> "done"]

\* index.ts:1163-1201, what follows the evaluation of isReplyToBot for call
\* i of the calls ints: the id is marked processed on either branch, and a
\* mention or reply that asks for an image goes to image generation.
Respond(ints, i, isReplyToBot) ==
    LET tweet == ints[i].tweet
        isDirectMention == Includes(tweet.text, BotHandle)
        imagePrompt == RemoveMentions(tweet.text)
        go == (isDirectMention \/ isReplyToBot) /\ IsImageRequest(imagePrompt)
    IN  /\ processedTweets' = MarkProcessed(processedTweets, tweet.id)
        /\ imageCount' = IF go THEN ImageCountAfter(tweet, imagePrompt)
                               ELSE imageCount
        /\ imageTweet' = IF go THEN ImageTweetAfter(tweet, imagePrompt)
                               ELSE imageTweet
        /\ interactions' =
              [ints EXCEPT ![i] = IF go THEN [@ EXCEPT !.pc = "imageGen"]
                                        ELSE Finished]

\* handleTweetInteraction(tweet) up to its first await; clock is what
\* Date.now() answers, and calls says how many calls are made in all.
Handle(tweet, clock, calls) ==
    /\ Len(interactions) < calls
    /\ LET g == Guard(tweet, processedTweets, initializationTime, clock)
           i == Len(interactions) + 1
           called == Append(interactions, [tweet |-> tweet, pc |-> "done"])
       IN  IF g # "process"
             THEN /\ interactions' = Append(interactions, Finished)
                  /\ processedTweets' =
                        IF g = "stale"
                          THEN MarkProcessed(processedTweets, tweet.id)
                          ELSE processedTweets
                  /\ UNCHANGED <<classified, imageCount, imageTweet>>
             ELSE /\ classified' = <<tweet>>
                  /\ IF tweet.inReplyToStatusId
                       THEN /\ interactions' =
                                  [called EXCEPT ![i].pc = "isOwnTweet"]
                            /\ UNCHANGED <<processedTweets, imageCount,
                                           imageTweet>>
                       ELSE Respond(called, i, FALSE)
    /\ UNCHANGED <<startVars, builtVars, cacheManager, postVars, pollVars, queueVars, initializationTime, inflight,
                   skipped, returned, acceptCount>>

\* A call made on its own or after the calls before it have returned.
handleTweetInteraction(tweet, clock) == Handle(tweet, clock, MaxInteractions)

\* A call made while earlier calls may still await their isOwnTweet or
\* their image (callers that do not await one call before the next).
handleTweetInteractionConcurrently(tweet, clock) ==
    Handle(tweet, clock, MaxConcurrent)

\* isOwnTweet -> getTweet finds the tweet in the cache (index.ts:354-361,
\* 1215-1216); own says whether its author is the agent.
getCachedTweet(i, own) ==
    /\ i \in 1..Len(interactions)
    /\ interactions[i].pc = "isOwnTweet"
    /\ Respond(interactions, i, own)
    /\ UNCHANGED <<startVars, builtVars, cacheManager, postVars, pollVars, queueVars, initializationTime, inflight,
                   skipped, returned, acceptCount, classified>>

\* isOwnTweet -> getTweet does not find it and asks the platform through
\* the queue (index.ts:368-370).
getTweet(i) ==
    /\ i \in 1..Len(interactions)
    /\ interactions[i].pc = "isOwnTweet"
    /\ Len(queue) < MaxTasks
    /\ queue' = Append(queue, [NewTask("getTweet") EXCEPT !.owner = i])
    /\ interactions' = [interactions EXCEPT ![i].pc = "getTweet"]
    /\ UNCHANGED <<startVars, builtVars, cacheManager, postVars, pollVars, startOrder, initializationTime, processedTweets,
                   inflight, skipped, returned, acceptCount, classified,
                   imageCount, imageTweet>>

\* getTweet and isOwnTweet return to handleTweetInteraction (index.ts:
\* 372-392, 1216-1222).  own says whether the platform had the tweet and
\* its author is the agent; a rejection makes isOwnTweet false.  A tweet
\* the platform had is cached (index.ts:384), unless the cache fails, which
\* cacheTweet logs (index.ts:313-324).
getTweetReturn(k, own) ==
    /\ k \in 1..Len(queue)
    /\ queue[k].fn = "getTweet"
    /\ queue[k].caller # "pending"
    /\ ~queue[k].returned
    /\ Respond(interactions, queue[k].owner,
               queue[k].caller = "fulfilled" /\ own)
    /\ queue' = [queue EXCEPT ![k] = [@ EXCEPT !.returned = TRUE]]
    /\ \E stored \in BOOLEAN :
          /\ stored => queue[k].caller = "fulfilled"
          /\ cacheManager' =
                IF stored THEN CacheSet(cacheManager, TweetKey, <<"tweet">>)
                          ELSE cacheManager
    /\ UNCHANGED <<startVars, builtVars, postVars, pollVars, startOrder, initializationTime, inflight,
                   skipped, returned, acceptCount, classified>>

\* generateImage settles and handleTweetInteraction ends (index.ts:
\* 1190-1196; the attachment is not used).
ImageSettles(i) ==
    /\ i \in 1..Len(interactions)
    /\ interactions[i].pc = "imageGen"
    /\ interactions' = [interactions EXCEPT ![i] = Finished]
    /\ UNCHANGED <<startVars, builtVars, cacheManager, postVars, pollVars, queueVars, initializationTime, processedTweets,
                   inflight, skipped, returned, acceptCount, classified,
                   imageCount, imageTweet>>

\* ClientBase.fetchProfile when the profile is not cached (index.ts:
\* 947-973).
fetchProfile ==
    /\ Len(queue) < MaxTasks
    /\ queue' = Append(queue, NewTask("getProfile"))
    /\ UNCHANGED <<startVars, builtVars, cacheManager, startOrder, baseVars, pollVars, postVars>>

\* What Date.now() can answer once the client is constructed
\* (index.ts:167): the time of construction or a later one.
Clock == { initializationTime + 1000 * d : d \in 0..MaxTicks }

(***************************************************************************)
(* TwitterInteractionClient (interactions.ts:490-686).                     *)
(***************************************************************************)

\* The platform call of polling cycle c.
CycleCall(c) == <<"cycle", c>>

ActiveCycles == { c \in DOMAIN cycles : cycles[c].pc # "done" }

\* A polling cycle that has passed the guard of handleTwitterInteractions
\* and awaits its search, and one that has ended.  left is the number of
\* tweets of the batch whose round of the loop of processTweets has not
\* ended, tried the number of rounds that have begun, open the number of
\* rounds that have begun and not ended.  tweet,
\* image, url and reply describe the round in progress: its tweet, whether
\* handleImageGenerationRequest was called in it, where the url of the
\* attachment it returned comes from ("none" without attachment), and the
\* reply the round is making ("image", "text", "none").  Between two rounds
\* reply says how the round before ended: with its reply posted
\* ("imagePosted", "textPosted"), in its catch block ("failed", or
\* "typeError" when the client object had no post client), or without
\* reply ("none"); and tweet is the tweet of the round before if that
\* round passed it over.
NewCycle ==
    [pc |-> "search", left |-> 0, tried |-> 0, open |-> 0,
     tweet |-> <<>>, image |-> FALSE, url |-> "none", reply |-> "none"]

DoneCycle == [NewCycle EXCEPT !.pc = "done"]

\* (Variant: handleTwitterInteractions has no catch block and rejects.)
SearchFailedUncaught == [NewCycle EXCEPT !.pc = "rejected"]

\* A cycle whose search was rejected: the catch block has logged the error
\* (interactions.ts:188-192, 564-568) and handleTwitterInteractions has
\* returned.
SearchFailed == [DoneCycle EXCEPT !.reply = "failed"]

\* start() (interactions.ts:508-524): a new interval timer is created and
\* stored in processingTimer, whatever processingTimer held.
setInterval ==
    /\ timerCount < MaxStarts
    /\ timerCount' = timerCount + 1
    /\ timers' = timers \cup {timerCount + 1}
    /\ processingTimer' = timerCount + 1

\* A call of start() on the interaction client.
start ==
    /\ setInterval
    /\ UNCHANGED <<startVars, builtVars, cacheManager, variant, isProcessingActions, cycles, lastTick,
                   queueVars, baseVars, postVars>>

\* stop() (interactions.ts:677-685): the timer held by processingTimer is
\* cleared and the flag is reset.
stop ==
    /\ timers' = timers \ {processingTimer}
    /\ processingTimer' = NoTimer
    /\ isProcessingActions' = FALSE
    /\ UNCHANGED <<startVars, builtVars, cacheManager, variant, timerCount, cycles, lastTick, queueVars,
                   baseVars, postVars>>

\* A tick of interval timer t (interactions.ts:512-518) and, when the flag
\* is clear, handleTwitterInteractions up to its await (527-544): the flag
\* is set and the search is sent to the platform client directly.
TimerTick(t) ==
    /\ t \in timers
    /\ IF ~isProcessingActions
         THEN /\ Len(cycles) < MaxCycles
              /\ isProcessingActions' = TRUE
              /\ cycles' = Append(cycles, NewCycle)
              /\ inflight' = inflight \cup {CycleCall(Len(cycles) + 1)}
              /\ lastTick' = "started"
         ELSE /\ lastTick' = "skipped"
              /\ UNCHANGED <<isProcessingActions, cycles, inflight>>
    /\ UNCHANGED <<startVars, builtVars, cacheManager, variant, processingTimer, timers, timerCount, queueVars,
                   postVars, initializationTime, processedTweets, skipped,
                   returned, acceptCount, interactions, classified,
                   imageCount, imageTweet>>

\* The search of cycle c is answered (interactions.ts:540-563): with n
\* tweets, which are handed to processTweets as they are, or with an error,
\* which the catch block logs before the finally block clears the flag
\* (564-571).  The tweets are drawn one by one as the loop comes to them
\* (processTweets): nothing looks at them before.
SearchAnswers(c, o, n) ==
    /\ c \in DOMAIN cycles
    /\ cycles[c].pc = "search"
    /\ inflight' = inflight \ {CycleCall(c)}
    /\ IF o = "fulfilled"
         THEN /\ cycles' = [cycles EXCEPT ![c] =
                    [NewCycle EXCEPT !.pc = "loop", !.left = n]]
              /\ UNCHANGED isProcessingActions
         ELSE /\ n = 0
              /\ cycles' = [cycles EXCEPT ![c] = SearchFailed]
              /\ isProcessingActions' = FALSE
    /\ UNCHANGED <<startVars, builtVars, cacheManager, variant, processingTimer, timers, timerCount, lastTick,
                   queueVars, postVars, initializationTime, processedTweets,
                   skipped, returned, acceptCount, interactions, classified,
                   imageCount, imageTweet>>

\* text.replace(/generate\s+image/i, '') (interactions.ts:608): the first
\* "generate image", in any letter case, is taken out.
RemoveGenerateImage(text) ==
    LET at == { j \in 1..(Len(text) - 1) :
                  /\ ToLowerCase(text[j]) = "generate"
                  /\ ToLowerCase(text[j + 1]) = "image" }
    IN  IF at = {} THEN text
        ELSE LET j == CHOOSE x \in at : \A y \in at : x <= y
             IN  SubSeq(text, 1, j - 1) \o SubSeq(text, j + 2, Len(text))

\* interactions.ts:213-214: the lower-cased text holds the agent's handle.
IsMention(tweet) == Includes(LowerCase(tweet.text), BotHandle)

\* (Variant: the keywords are looked for in the text as it was written.)
IsGenerationRequestCaseSensitive(tweet) ==
    Includes(tweet.text, "generate") /\ Includes(tweet.text, "image")

\* interactions.ts:589-591, 604: the lower-cased text holds "generate" and
\* "image".
IsGenerationRequest(tweet) ==
    /\ Includes(LowerCase(tweet.text), "generate")
    /\ Includes(LowerCase(tweet.text), "image")

\* interactions.ts:606-609: the prompt handed to image generation.
ExtractPrompt(tweet) == RemoveGenerateImage(RemoveMentions(tweet.text))

\* generateContextualPrompt (interactions.ts:264-277): mentions and the
\* words generate, image, please are taken out; what is left, or a fixed
\* phrase when nothing is left.
generateContextualPrompt(text) ==
    LET cleanText == SelectSeq(RemoveMentions(text),
                        LAMBDA w : ToLowerCase(w) \notin
                                     {"generate", "image", "please"})
    IN  IF cleanText = <<>> THEN <<"addressing", "a", "crowd">> ELSE cleanText

\* Whether a round of the loop calls handleImageGenerationRequest: the
\* first declaration of the class does so on both of its branches
\* (interactions.ts:216-243), the second one for a generation request
\* (interactions.ts:604-619).
TakesImagePath(v, tweet) ==
    IF v = 1 THEN TRUE ELSE IsGenerationRequest(tweet)

\* The prompt the round calls it with (interactions.ts:218, 241, 606-619).
ImagePrompt(v, tweet) ==
    IF v = 1
      THEN IF IsMention(tweet)
             THEN <<"trump">> \o generateContextualPrompt(tweet.text)
             ELSE <<"trump", "looking", "over", "a", "crowd">>
      ELSE ExtractPrompt(tweet)

\* The reply a round goes on to once handleImageGenerationRequest has
\* returned an attachment (ok) or null (interactions.ts:226-251, 621-658).
ReplyKind(v, tweet, ok) ==
    IF tweet.id = NoId THEN "none"
    ELSE IF ok THEN "image"
    ELSE IF v = 1 /\ ~IsMention(tweet) THEN "none"
    ELSE "text"

\* (Variant: the loop goes to its next round without awaiting the round in
\* progress.)
CanTakeNextUnawaited(cycle) ==
    cycle.pc \in {"loop", "imageGen", "reply"} /\ cycle.left > cycle.open

\* The for loop (interactions.ts:204, 580) takes the next tweet when the
\* round before has ended and a tweet is left.
CanTakeNext(cycle) ==
    cycle.pc = "loop" /\ cycle.left > 0

\* A round ends, in its try block (reply = "none") or in its catch block
\* (reply = "failed").
RoundEnds(cycle, reply) ==
    [cycle EXCEPT !.pc = "loop", !.left = @ - 1, !.open = @ - 1,
                  !.tweet = <<>>, !.image = FALSE, !.url = "none",
                  !.reply = reply]

\* (Variant: no catch block in the loop; the exception ends processTweets.)
CaughtUncaught(cycle) == DoneCycle

\* The catch block of a round (interactions.ts:253-259, 667-673): the
\* error is logged and the round ends.
Caught(cycle) == RoundEnds(cycle, "failed")

\* One round of the loop of processTweets up to its first await
\* (interactions.ts:204-243, 580-619): handleImageGenerationRequest is
\* called, or the tweet is passed over and the round ends (659-666).
processTweets(c, tweet) ==
    /\ c \in DOMAIN cycles
    /\ CanTakeNext(cycles[c])
    /\ LET round == [cycles[c] EXCEPT !.tried = @ + 1, !.open = @ + 1,
                                      !.tweet = <<tweet>>,
                                      !.image = FALSE, !.reply = "none"]
           prompt == ImagePrompt(variant, tweet)
       IN  IF TakesImagePath(variant, tweet)
             THEN /\ imageCount' = ImageCountAfter(tweet, prompt)
                  /\ imageTweet' = ImageTweetAfter(tweet, prompt)
                  /\ cycles' = [cycles EXCEPT ![c] =
                        [round EXCEPT !.pc = "imageGen", !.image = TRUE]]
             ELSE /\ cycles' = [cycles EXCEPT ![c] =
                        [RoundEnds(round, "none") EXCEPT !.tweet = <<tweet>>]]
                  /\ UNCHANGED <<imageCount, imageTweet>>
    /\ UNCHANGED <<startVars, builtVars, cacheManager, variant, processingTimer, timers, timerCount,
                   isProcessingActions, lastTick, queueVars, postVars,
                   initializationTime, processedTweets, inflight, skipped,
                   returned, acceptCount, interactions, classified>>

\* handleImageGenerationRequest returns, the generator having answered
\* with result (index.ts:1059-1119), and the round goes on to its reply
\* through client.post, with the attachment as it was returned
\* (interactions.ts:226-233, 621-633), or ends when there is no reply to
\* make (interactions.ts:226-251, 621-658).
ImageAnswers(c, result) ==
    /\ c \in DOMAIN cycles
    /\ cycles[c].pc = "imageGen"
    /\ LET tweet == cycles[c].tweet[1]
           prompt == ImagePrompt(variant, tweet)
           attachment == Attachment(prompt, result)
           kind == ReplyKind(variant, tweet, attachment # "none")
       IN  /\ result \in IF InvokesGenerator(prompt) THEN GeneratorResults
                                                     ELSE {NotCalled}
           /\ cycles' = [cycles EXCEPT ![c] =
                 IF kind = "none" THEN RoundEnds(@, "none")
                 ELSE [@ EXCEPT !.pc = "reply", !.reply = kind,
                                !.url = attachment]]
    /\ UNCHANGED <<startVars, builtVars, cacheManager, variant, processingTimer, timers, timerCount,
                   isProcessingActions, lastTick, queueVars, baseVars,
                   postVars>>

\* this.client.post.replyWithImage / reply (interactions.ts:229, 236, 246,
\* 630, 649): without a post client on the client object the expression
\* throws a TypeError; with one, postTweet returns, or throws (o), as it
\* does when the image cannot be fetched or the submission fails
\* (post.ts:153-160, 190-193, 222-226).  What is thrown lands in the catch
\* block of the round; no other reply is made.
ReplyAnswers(c, o) ==
    /\ c \in DOMAIN cycles
    /\ cycles[c].pc = "reply"
    /\ cycles' = [cycles EXCEPT ![c] =
          IF ~clientPost THEN [Caught(@) EXCEPT !.reply = "typeError"]
          ELSE IF o = "fulfilled"
            THEN RoundEnds(@, IF @.reply = "image" THEN "imagePosted"
                                                   ELSE "textPosted")
            ELSE Caught(@)]
    /\ UNCHANGED <<startVars, builtVars, cacheManager, variant, processingTimer, timers, timerCount,
                   isProcessingActions, lastTick, queueVars, baseVars,
                   postVars>>

\* The loop is over and handleTwitterInteractions ends: the finally block
\* clears the flag (interactions.ts:194-196, 569-571).
CycleEnds(c) ==
    /\ c \in DOMAIN cycles
    /\ cycles[c].pc = "loop"
    /\ cycles[c].left = 0
    /\ cycles' = [cycles EXCEPT ![c] = DoneCycle]
    /\ isProcessingActions' = FALSE
    /\ UNCHANGED <<startVars, builtVars, cacheManager, variant, processingTimer, timers, timerCount, lastTick,
                   queueVars, baseVars, postVars>>

(***************************************************************************)
(* TwitterPostClient.postTweet (post.ts:126-232).                          *)
(***************************************************************************)

\* post.ts:131-136: the least time between the last post and the next.
MinSpacing == 2000

\* post.ts:169-187: sendQuoteTweet, sendNoteTweet, sendTweet.
PostKinds == {"quote", "note", "tweet"}

\* The platform call of call p of postTweet.
PostCall(p) == <<"post", p>>

\* A call of postTweet that has returned, and one that has thrown.
Posted == [pc |-> "done", wake |-> 0, images |-> FALSE, kind |-> "tweet"]
Thrown == [Posted EXCEPT !.pc = "failed"]

\* A call of postTweet that threw before its try block (post.ts:127-129).
Refused == [Posted EXCEPT !.pc = "refused"]

\* (Variant: options.text is not looked at.)
EmptyTextUnchecked(text) == FALSE

\* post.ts:127: !options.text.
EmptyText(text) == ~text

\* The calls of postTweet with call p, a new one or one in progress, at
\* the point call.
PutCall(p, call) ==
    IF p > Len(posts) THEN Append(posts, call)
                      ELSE [posts EXCEPT ![p] = call]

\* post.ts:168-187: the tweet is submitted, with sendQuoteTweet,
\* sendNoteTweet or sendTweet of the platform client (call.kind).
Send(p, call) ==
    /\ posts' = PutCall(p, [call EXCEPT !.pc = "send"])
    /\ inflight' = inflight \cup {PostCall(p)}
    /\ lastSubmit' = now
    /\ submitGap' = IF lastSubmit = NoTime THEN submitGap
                                           ELSE now - lastSubmit

\* The try block up to its first await (post.ts:138-187), for call p with
\* the record call: nothing is sent in a dry run; attachments are prepared
\* first when there are any.
Enter(p, call) ==
    IF isDryRun \/ call.images
      THEN /\ posts' = PutCall(p, IF isDryRun THEN Posted
                                   ELSE [call EXCEPT !.pc = "prepare"])
           /\ UNCHANGED <<inflight, lastSubmit, submitGap>>
      ELSE Send(p, call)

\* postTweet(options) up to its first await (post.ts:126-187): text says
\* whether options.text is not empty, images whether there are
\* attachments.  reply and replyWithImage (234-247) are calls of it.
postTweet(text, images, kind) ==
    /\ Len(posts) < MaxPosts
    /\ LET p == Len(posts) + 1
           timeSinceLastPost == now - lastPostTime
           call == [pc |-> "sleep", wake |-> 0, images |-> images,
                    kind |-> kind]
       IN  IF EmptyText(text)
             THEN /\ posts' = Append(posts, Refused)
                  /\ UNCHANGED <<inflight, lastSubmit, submitGap>>
           ELSE IF timeSinceLastPost < MinSpacing
             THEN /\ posts' = Append(posts,
                        [call EXCEPT !.wake =
                            now + (MinSpacing - timeSinceLastPost)])
                  /\ UNCHANGED <<inflight, lastSubmit, submitGap>>
             ELSE Enter(p, call)
    /\ UNCHANGED <<startVars, builtVars, cacheManager, isDryRun, lastPostTime, now, queueVars, pollVars,
                   initializationTime, processedTweets, skipped, returned,
                   acceptCount, interactions, classified, imageCount,
                   imageTweet>>

\* The timer of post.ts:135 fires and the call goes on.
Wake(p) ==
    /\ p \in DOMAIN posts
    /\ posts[p].pc = "sleep"
    /\ now >= posts[p].wake
    /\ Enter(p, [posts[p] EXCEPT !.wake = 0])
    /\ UNCHANGED <<startVars, builtVars, cacheManager, isDryRun, lastPostTime, now, queueVars, pollVars,
                   initializationTime, processedTweets, skipped, returned,
                   acceptCount, interactions, classified, imageCount,
                   imageTweet>>

\* prepareImageAttachments settles (post.ts:154-160): the tweet is
\* submitted, or the error is thrown on (222-226).
PrepareAnswers(p, o) ==
    /\ p \in DOMAIN posts
    /\ posts[p].pc = "prepare"
    /\ IF o = "fulfilled"
         THEN Send(p, posts[p])
         ELSE /\ posts' = [posts EXCEPT ![p] = Thrown]
              /\ UNCHANGED <<inflight, lastSubmit, submitGap>>
    /\ UNCHANGED <<startVars, builtVars, cacheManager, isDryRun, lastPostTime, now, queueVars, pollVars,
                   initializationTime, processedTweets, skipped, returned,
                   acceptCount, interactions, classified, imageCount,
                   imageTweet>>

\* (Variant: a failed submission is made again.)
AfterSendRetried(call, o) ==
    IF o = "fulfilled" THEN [call EXCEPT !.pc = "cache"]
                       ELSE [call EXCEPT !.pc = "prepare"]

\* post.ts:189-226: a call whose submission was answered with a tweet id
\* goes on to cache the tweet; an error, or a response without id (190-193),
\* is logged and thrown on to the caller (222-226).
AfterSend(call, o) ==
    IF o = "fulfilled" THEN [call EXCEPT !.pc = "cache"] ELSE Thrown

\* The platform answers the submission (post.ts:168-193): with a tweet id,
\* and the tweet is cached, or with an error or a response without id,
\* which is thrown on.
SendAnswers(p, o) ==
    /\ p \in DOMAIN posts
    /\ posts[p].pc = "send"
    /\ inflight' = inflight \ {PostCall(p)}
    /\ posts' = [posts EXCEPT ![p] = AfterSend(@, o)]
    /\ UNCHANGED <<startVars, builtVars, cacheManager, isDryRun, lastPostTime, now, lastSubmit, submitGap,
                   queueVars, pollVars, initializationTime, processedTweets,
                   skipped, returned, acceptCount, interactions, classified,
                   imageCount, imageTweet>>

\* (Variant: cacheTweetDetails has no catch block, and a failed write ends
\* postTweet in its own catch block.)
AfterCacheUncaught(stored) == IF stored THEN Posted ELSE Thrown

\* post.ts:220-221, 285-288: cacheTweetDetails returns whether or not the
\* record was written, and postTweet returns.
AfterCache(stored) == Posted

\* cacheTweetDetails returns (post.ts:249-289) and lastPostTime is set
\* (220-221).  stored says whether the record of the tweet was written
\* under the lastPost key (259-266): it is not when the client has no
\* profile (250-254) or when cacheManager.set fails, which the catch block
\* logs (285-288).
CacheAnswers(p, stored) ==
    /\ p \in DOMAIN posts
    /\ posts[p].pc = "cache"
    /\ cacheManager' =
          IF stored THEN CacheSet(cacheManager, LastPostKey, PostCall(p))
                    ELSE cacheManager
    /\ lastPostTime' = now
    /\ posts' = [posts EXCEPT ![p] = AfterCache(stored)]
    /\ UNCHANGED <<startVars, builtVars, isDryRun, now, lastSubmit, submitGap, queueVars,
                   pollVars, baseVars>>

\* Time passes.
Tick ==
    /\ now < initializationTime + 1000 * MaxClock
    /\ now' = now + 1000
    /\ UNCHANGED <<startVars, builtVars, cacheManager, isDryRun, lastPostTime, posts, lastSubmit, submitGap,
                   queueVars, pollVars, baseVars>>

(***************************************************************************)
(* Specifications.                                                         *)
(***************************************************************************)
vars == <<queueVars, baseVars, pollVars, postVars, builtVars, cacheManager,
          startVars>>

\* The parts of the program after their construction: a ClientBase with its
\* RequestQueue (index.ts:157-200) built from a configuration with
\* TWITTER_DRY_RUN = config, a TwitterPostClient (post.ts:36-61) with the
\* isDryRun argument dry, and a TwitterInteractionClient of declaration v
\* (interactions.ts:121-130, 497-506) whose client object carries a post
\* client or not (post).  Nothing has been written to the cache.
Built(v, dry, config, post) ==
    /\ twitterConfig = [TWITTER_DRY_RUN |-> config]
    /\ clientPost = post
    /\ cacheManager = {}
    /\ queue = <<>>
    /\ startOrder = <<>>
    /\ initializationTime \in InitTimes
    /\ processedTweets = {}
    /\ inflight = {}
    /\ skipped = {}
    /\ returned = <<>>
    /\ acceptCount = [id \in Ids |-> 0]
    /\ interactions = <<>>
    /\ classified = <<>>
    /\ imageCount = [id \in Ids |-> 0]
    /\ imageTweet = <<>>
    /\ variant = v
    /\ processingTimer = NoTimer
    /\ timers = {}
    /\ timerCount = 0
    /\ isProcessingActions = FALSE
    /\ cycles = <<>>
    /\ lastTick = "none"
    /\ isDryRun = dry
    /\ lastPostTime = 0
    /\ posts = <<>>
    /\ now = initializationTime
    /\ lastSubmit = NoTime
    /\ submitGap = NoTime
    /\ clients = <<NewClient("agent:pw", 1)>>
    /\ twitterClients = [a \in Accounts |->
                            IF a = "agent:pw" THEN 1 ELSE NoScraper]
    /\ scrapers = 1
    /\ startCall = "built"

\* new TwitterManager(runtime, twitterConfig) (index.ts:22-34): the post
\* client is constructed without the isDryRun argument (index.ts:27), which
\* leaves the default, false (post.ts:36), whatever the configuration says;
\* it is stored in the manager and not in the ClientBase object, which is
\* handed to the interaction client as it is (index.ts:27-28).
TwitterManager(v, config) == Built(v, FALSE, config, FALSE)

Init == TwitterManager(2, FALSE)

\* The interaction client is of either declaration, on a client object
\* with or without a post client.
InitPoll == \E v \in Variants, post \in BOOLEAN : Built(v, FALSE, FALSE, post)

\* A TwitterPostClient constructed with either value of isDryRun.
InitPost == \E dry \in BOOLEAN : Built(2, dry, dry, TRUE)

\* The program TwitterClientInterface.start builds (index.ts:38-47), from a
\* configuration with either value of TWITTER_DRY_RUN.
InitManager == \E config \in BOOLEAN : TwitterManager(2, config)

\* RequestQueue on its own, with tasks whose functions settle freely.
Submit ==
    /\ Len(queue) < MaxSubmit
    /\ add("task")
    /\ UNCHANGED <<startVars, builtVars, cacheManager, startOrder, baseVars, pollVars, postVars>>

Run(k) ==
    /\ \E sync \in BOOLEAN : RunTask(k, sync)
    /\ UNCHANGED <<startVars, builtVars, cacheManager, baseVars, pollVars, postVars>>

Settle(k) ==
    /\ \E o \in Outcomes : SettleFn(k, o, "task")
    /\ UNCHANGED <<startVars, builtVars, cacheManager, baseVars, pollVars, postVars>>

NextQueue ==
    \/ Submit
    \/ \E k \in 1..MaxSubmit : Run(k)
    \/ \E k \in 1..MaxSubmit : Settle(k)
    \/ \E k \in 1..MaxSubmit : QueueSettles(k)

SpecQueue == Init /\ [][NextQueue]_vars

\* RequestQueue when every promise reaction of add() runs in the end.
\* Nothing is assumed of the functions of the tasks: one that was called
\* may never settle.
FairQueue ==
    \A k \in 1..MaxSubmit : WF_vars(Run(k)) /\ WF_vars(QueueSettles(k))

SpecQueueLive == SpecQueue /\ FairQueue

\* ClientBase with its queue.
NextBase ==
    \/ fetchSearchTweets
    \/ fetchProfile
    \/ \E k \in 1..MaxTasks : TimeoutFires(k)
    \/ \E k \in 1..MaxTasks : RunQueued(k)
    \/ \E k \in 1..MaxTasks : RaceTimeout(k)
    \/ \E k \in 1..MaxTasks, o \in Outcomes : PlatformAnswers(k, o)
    \/ \E k \in 1..MaxTasks : QueueSettles(k)
    \/ \E k \in 1..MaxTasks, tweets \in Batches :
          fetchSearchTweetsReturn(k, tweets)
    \/ \E t \in Tweets : \E clock \in Clock : handleTweetInteraction(t, clock)
    \/ \E i \in 1..MaxInteractions, own \in BOOLEAN : getCachedTweet(i, own)
    \/ \E i \in 1..MaxInteractions : getTweet(i)
    \/ \E k \in 1..MaxTasks, own \in BOOLEAN : getTweetReturn(k, own)
    \/ \E i \in 1..MaxInteractions : ImageSettles(i)

SpecBase == Init /\ [][NextBase]_vars

\* Concurrent calls of handleTweetInteraction on one ClientBase, with the
\* queue behind getTweet.
NextHandle ==
    \/ \E t \in Tweets : \E clock \in Clock :
          handleTweetInteractionConcurrently(t, clock)
    \/ \E i \in 1..MaxConcurrent, own \in BOOLEAN : getCachedTweet(i, own)
    \/ \E i \in 1..MaxConcurrent : getTweet(i)
    \/ \E k \in 1..MaxTasks : RunQueued(k)
    \/ \E k \in 1..MaxTasks, o \in Outcomes : PlatformAnswers(k, o)
    \/ \E k \in 1..MaxTasks : QueueSettles(k)
    \/ \E k \in 1..MaxTasks, own \in BOOLEAN : getTweetReturn(k, own)
    \/ \E i \in 1..MaxConcurrent : ImageSettles(i)

SpecHandle == Init /\ [][NextHandle]_vars

(***************************************************************************)
(* ClientBase objects and TwitterClientInterface.start.                    *)
(***************************************************************************)

otherVars == <<queueVars, baseVars, postVars, builtVars, cacheManager>>

\* new ClientBase(runtime, twitterConfig) for the account identifier
\* account (index.ts:157-200): the platform client stored for the
\* identifier is taken, or a new Scraper is made and stored.
ClientBase(account) ==
    /\ Len(clients) < MaxClients
    /\ IF twitterClients[account] # NoScraper
         THEN /\ clients' = Append(clients,
                               NewClient(account, twitterClients[account]))
              /\ UNCHANGED <<twitterClients, scrapers>>
         ELSE /\ clients' = Append(clients, NewClient(account, scrapers + 1))
              /\ twitterClients' =
                    [twitterClients EXCEPT ![account] = scrapers + 1]
              /\ scrapers' = scrapers + 1
    /\ UNCHANGED <<startCall, pollVars, otherVars>>

\* init() of client i up to its first await (index.ts:228-243): a new
\* Scraper is made and assigned to twitterClient, and login is called on
\* it.
InitBegins(i) ==
    /\ i \in DOMAIN clients
    /\ clients[i].pc = "built"
    /\ clients' = [clients EXCEPT ![i] =
                      [@ EXCEPT !.twitterClient = scrapers + 1,
                                !.pc = "login"]]
    /\ scrapers' = scrapers + 1
    /\ UNCHANGED twitterClients

\* init() called on a client other than the one start() has built.
init(i) ==
    /\ i # 1
    /\ InitBegins(i)
    /\ UNCHANGED <<startCall, pollVars, otherVars>>

\* TwitterClientInterface.start after it has built the manager
\* (index.ts:42-43): init() of the manager's client is called and awaited.
TwitterClientInterfaceStart ==
    /\ startCall = "built"
    /\ InitBegins(1)
    /\ startCall' = "init"
    /\ UNCHANGED <<pollVars, otherVars>>

\* init() ends in its catch block (index.ts:292-299): the error is logged
\* and thrown on.
InitFailed(client) == [client EXCEPT !.pc = "failed"]

\* login settles (index.ts:238-243): init() goes on to fetch the profile,
\* or ends in its catch block.
LoginAnswers(i, o) ==
    /\ i \in DOMAIN clients
    /\ clients[i].pc = "login"
    /\ clients' = [clients EXCEPT ![i] =
                      IF o = "fulfilled" THEN [@ EXCEPT !.pc = "getProfile"]
                                         ELSE InitFailed(@)]
    /\ UNCHANGED <<twitterClients, scrapers, startCall, pollVars, otherVars>>

\* What getProfile can answer: a profile, nothing, or a rejection.
ProfileAnswerKinds == {"profile", "null", "rejected"}

\* getProfile settles (index.ts:250-291): with a profile, the profile is
\* set and 'ready' is emitted; without one, or on a rejection, init() ends
\* in its catch block.
ProfileAnswers(i, o) ==
    /\ i \in DOMAIN clients
    /\ clients[i].pc = "getProfile"
    /\ clients' = [clients EXCEPT ![i] =
                      IF o = "profile"
                        THEN [@ EXCEPT !.profile = TRUE, !.ready = TRUE,
                                       !.pc = "ready"]
                        ELSE InitFailed(@)]
    /\ UNCHANGED <<twitterClients, scrapers, startCall, pollVars, otherVars>>

\* (Variant: start() goes on whether init() has returned or thrown.)
AfterInitUnchecked(client) == "post"

\* index.ts:43-44: start() goes on to the post client when init() has
\* returned, and rejects when init() has thrown.
AfterInit(client) == IF client.pc = "ready" THEN "post" ELSE "rejected"

\* start() is resumed after init() (index.ts:43).
InitReturns ==
    /\ startCall = "init"
    /\ clients[1].pc \in {"ready", "failed"}
    /\ startCall' = AfterInit(clients[1])
    /\ UNCHANGED <<clients, twitterClients, scrapers, pollVars, otherVars>>

\* manager.post.start() (index.ts:44, post.ts:291-299), which sets the
\* user name of the post client, has returned.
PostStartReturns ==
    /\ startCall = "post"
    /\ startCall' = "interaction"
    /\ UNCHANGED <<clients, twitterClients, scrapers, pollVars, otherVars>>

\* manager.interaction.start() (index.ts:45, interactions.ts:508-524)
\* creates the polling timer, and start() returns the manager (index.ts:47).
InteractionStart ==
    /\ startCall = "interaction"
    /\ setInterval
    /\ startCall' = "returned"
    /\ UNCHANGED <<clients, twitterClients, scrapers, variant,
                   isProcessingActions, cycles, lastTick, otherVars>>

NextStart ==
    \/ \E account \in Accounts : ClientBase(account)
    \/ \E i \in 1..MaxClients : init(i)
    \/ TwitterClientInterfaceStart
    \/ \E i \in 1..MaxClients, o \in Outcomes : LoginAnswers(i, o)
    \/ \E i \in 1..MaxClients, o \in ProfileAnswerKinds : ProfileAnswers(i, o)
    \/ InitReturns
    \/ PostStartReturns
    \/ InteractionStart

SpecStart == InitManager /\ [][NextStart]_vars

\* ClientBase when every step of the program itself is taken in the end:
\* timers fire, the queue runs the tasks whose turn it is, promise
\* reactions run, awaiting callers are resumed.  Nothing is assumed of the
\* platform: a call to it may stay without answer.
FairBase ==
    \A k \in 1..MaxTasks :
       /\ WF_vars(TimeoutFires(k))
       /\ WF_vars(RunQueued(k))
       /\ WF_vars(RaceTimeout(k))
       /\ WF_vars(QueueSettles(k))
       /\ WF_vars(\E tweets \in Batches : fetchSearchTweetsReturn(k, tweets))

SpecBaseLive == SpecBase /\ FairBase

\* TwitterInteractionClient, of either declaration, in the program
\* TwitterManager builds: started, stopped and started again.
NextPoll ==
    \/ start
    \/ stop
    \/ \E t \in 1..MaxStarts : TimerTick(t)
    \/ \E c \in 1..MaxCycles, o \in Outcomes, n \in 0..MaxBatch :
          SearchAnswers(c, o, n)
    \/ \E c \in 1..MaxCycles, t \in PollTweets : processTweets(c, t)
    \/ \E c \in 1..MaxCycles, r \in GeneratorResults \cup {NotCalled} :
          ImageAnswers(c, r)
    \/ \E c \in 1..MaxCycles, o \in Outcomes : ReplyAnswers(c, o)
    \/ \E c \in 1..MaxCycles : CycleEnds(c)

SpecPoll ==
    (\E v \in Variants : TwitterManager(v, FALSE)) /\ [][NextPoll]_vars

\* TwitterInteractionClient as TwitterClientInterface.start runs it
\* (index.ts:37-48): started and never stopped.
NextCycle ==
    \/ start
    \/ \E t \in 1..MaxStarts : TimerTick(t)
    \/ \E c \in 1..MaxCycles, o \in Outcomes, n \in 0..MaxBatch :
          SearchAnswers(c, o, n)
    \/ \E c \in 1..MaxCycles, t \in PollTweets : processTweets(c, t)
    \/ \E c \in 1..MaxCycles, r \in GeneratorResults \cup {NotCalled} :
          ImageAnswers(c, r)
    \/ \E c \in 1..MaxCycles, o \in Outcomes : ReplyAnswers(c, o)
    \/ \E c \in 1..MaxCycles : CycleEnds(c)

SpecCycle == InitPoll /\ [][NextCycle]_vars

\* The same when every step of the program itself is taken in the end, and
\* image generation and replies are answered.  Nothing is assumed of the
\* platform search.
FairCycle ==
    \A c \in 1..MaxCycles :
       /\ WF_vars(\E t \in PollTweets : processTweets(c, t))
       /\ WF_vars(\E r \in GeneratorResults \cup {NotCalled} :
                     ImageAnswers(c, r))
       /\ WF_vars(\E o \in Outcomes : ReplyAnswers(c, o))
       /\ WF_vars(CycleEnds(c))

SpecCycleLive == SpecCycle /\ FairCycle

\* TwitterPostClient.
NextPost ==
    \/ \E text \in BOOLEAN, images \in BOOLEAN, kind \in PostKinds :
          postTweet(text, images, kind)
    \/ \E p \in 1..MaxPosts : Wake(p)
    \/ \E p \in 1..MaxPosts, o \in Outcomes : PrepareAnswers(p, o)
    \/ \E p \in 1..MaxPosts, o \in Outcomes : SendAnswers(p, o)
    \/ \E p \in 1..MaxPosts, stored \in BOOLEAN : CacheAnswers(p, stored)
    \/ Tick

SpecPost == InitPost /\ [][NextPost]_vars

\* The TwitterPostClient of the program TwitterClientInterface.start
\* builds.
SpecManagerPost == InitManager /\ [][NextPost]_vars

(***************************************************************************)
(* Properties of RequestQueue, under SpecQueue.                            *)
(***************************************************************************)

Running == { k \in DOMAIN queue : queue[k].stage = "running" }

\* C1: the functions of the tasks begin in the order of the add() calls:
\* the n-th function to begin is the one of the n-th task added, whatever
\* the other tasks are doing.
C1_QueueOrder ==
    \A n \in DOMAIN startOrder : startOrder[n] = n

\* Three tasks were added while the first had not begun, and two have begun.
C1_Witness ==
    /\ Len(queue) = 3
    /\ startOrder = <<1, 2>>
    /\ queue[3].stage = "waiting"

\* C2: at most one task function is executing, and the function of a task
\* has not been invoked as long as the promise of the function of the task
\* before it is pending.
C2_OneAtATime ==
    /\ Cardinality(Running) <= 1
    /\ \A k \in DOMAIN queue :
          (k > 1 /\ queue[k].ran) => queue[k - 1].p1 # "pending"

\* The second task is executing after the first has settled, a third waits.
C2_Witness ==
    /\ Len(queue) = 3
    /\ queue[1].stage = "linkDone"
    /\ queue[2].stage = "running"
    /\ queue[3].stage = "waiting"

\* C3: a promise returned by add() settles only after the function of its
\* own task has run, and the way that function settled; the failure of a
\* task leaves the chain fulfilled, so that the next task runs.
C3_FailureIsolated ==
    \A k \in DOMAIN queue :
      /\ queue[k].caller # "pending" =>
            queue[k].ran /\ queue[k].caller = queue[k].p1
      /\ queue[k].link # "pending" => queue[k].link = "fulfilled"

\* The first task failed, the second ran and its promise was fulfilled.
C3_Witness ==
    /\ Len(queue) >= 2
    /\ queue[1].caller = "rejected"
    /\ queue[2].ran
    /\ queue[2].caller = "fulfilled"

(***************************************************************************)
(* Properties of ClientBase, under SpecBase.                               *)
(***************************************************************************)

\* C4: every id is accepted by the filter of fetchSearchTweets at most
\* once: no id is returned twice, in one batch or over several calls, and a
\* step never returns a tweet whose id was in processedTweets before the
\* step, whoever put it there.
C4_AcceptedOnce ==
    /\ [](\A id \in Ids : acceptCount[id] <= 1)
    /\ [][\A id \in processedTweets :
             acceptCount'[id] = acceptCount[id]]_vars

\* A call returned the tweet of id "a" once, although the batch held the
\* id a second time, or held it after an earlier call had returned it.
C4_Witness ==
    /\ acceptCount["a"] = 1
    /\ <<"a", "processed">> \in skipped

\* C6: no tweet returned by fetchSearchTweets is older than
\* initializationTime, whatever is in processedTweets.
C6_NoStaleReturned ==
    \A i \in DOMAIN returned :
       returned[i].timestamp * 1000 >= initializationTime

\* A call was given an old tweet of an id that is not processed together
\* with a new tweet, and returned the new one only.
C6_Witness ==
    /\ <<"a", "old">> \in skipped
    /\ returned # <<>>
    /\ "a" \notin processedTweets

Malformed(tweet) == tweet.id = NoId \/ tweet.timestamp = NoTimestamp

\* C8: a tweet without id or without timestamp is never accepted:
\* fetchSearchTweets does not return it, and handleTweetInteraction neither
\* classifies it nor asks for an image for it.
C8_MalformedRejected ==
    /\ \A i \in DOMAIN returned : ~Malformed(returned[i])
    /\ \A i \in DOMAIN classified : ~Malformed(classified[i])
    /\ \A i \in DOMAIN imageTweet : ~Malformed(imageTweet[i])

\* C10: at most one platform call of the account is in flight, the time
\* after a search was given up through its timeout included.
C10_OneInFlight ==
    Cardinality(inflight) <= 1

\* C37: the timeout of a search does not elapse before the task of the
\* search has begun to run in the queue: no task is still waiting for its
\* turn when its timer has fired.
C37_TimeoutAfterTaskBegins ==
    \A k \in DOMAIN queue :
       queue[k].timer = "fired" => queue[k].stage # "waiting"

\* C29: ClientBase.processedTweets only grows: no step of the client takes
\* an id out of it.
C29_ProcessedOnlyGrows ==
    [][processedTweets \subseteq processedTweets']_vars

\* fetchSearchTweets and handleTweetInteraction have both marked an id.
C29_Witness ==
    /\ Cardinality(processedTweets) = 2
    /\ returned # <<>>
    /\ Len(interactions) = 1 /\ interactions[1] = Finished

(***************************************************************************)
(* Properties of TwitterInteractionClient, under SpecPoll.                 *)
(***************************************************************************)

\* C5: over the polling cycles, image generation is triggered at most once
\* for an id, however often the search returns the id.
C5_OneImagePerId ==
    \A id \in Ids : imageCount[id] <= 1

Stale(tweet) ==
    /\ tweet.timestamp # NoTimestamp
    /\ tweet.timestamp * 1000 < initializationTime

\* C7: a tweet from before initializationTime that the search returns in a
\* polling cycle triggers no image generation.
C7_StaleIgnored ==
    \A i \in DOMAIN imageTweet : ~Stale(imageTweet[i])

\* C9: no two polling cycles are active at the same time, and a tick that
\* finds a cycle active starts none.
C9_OneCycle ==
    /\ [](Cardinality(ActiveCycles) <= 1)
    /\ [][ActiveCycles # {} => Len(cycles') = Len(cycles)]_vars

(***************************************************************************)
(* Properties of TwitterPostClient, under SpecPost.                        *)
(***************************************************************************)

\* C11: every submission of postTweet (sendTweet, sendNoteTweet,
\* sendQuoteTweet) is executed as a task of the RequestQueue: while the
\* platform call of a postTweet is in flight, a task of the queue that makes
\* it is running.
C11_SubmissionsQueued ==
    \A p \in DOMAIN posts :
       PostCall(p) \in inflight =>
          \E k \in Running : queue[k].fn = posts[p].kind

\* C17: two consecutive submissions of one TwitterPostClient are at least
\* 2000 ms apart, whether the calls of postTweet fail or succeed, follow
\* each other or overlap.
C17_Spacing ==
    submitGap = NoTime \/ submitGap >= MinSpacing

\* C25: when the configuration sets TWITTER_DRY_RUN, the client that
\* TwitterClientInterface.start has built submits no tweet and no reply.
C25_DryRunSubmitsNothing ==
    twitterConfig.TWITTER_DRY_RUN => lastSubmit = NoTime

\* C26: whenever a call of postTweet completes after a successful
\* submission, the record of its tweet is in the cache under the lastPost
\* key and lastPostTime is the time of completion.
C26_PostRecorded ==
    [][\A p \in DOMAIN posts :
          (posts[p].pc = "cache" /\ posts'[p].pc = "done") =>
             /\ <<LastPostKey, PostCall(p)>> \in cacheManager'
             /\ lastPostTime' = now']_vars

\* C27: a call of postTweet submits at most once and does not retry: it
\* submits when it is made or from its wait or its preparation, an answered
\* submission takes it to caching (a tweet id) or to its rejection (an
\* error, no id), and from there it never comes back to an earlier stage.
C27_NoRetry ==
    [][\A p \in DOMAIN posts' :
          /\ (PostCall(p) \in inflight' /\ PostCall(p) \notin inflight) =>
                (p \in DOMAIN posts => posts[p].pc \in {"sleep", "prepare"})
          /\ p \in DOMAIN posts =>
                /\ posts[p].pc = "send" =>
                      posts'[p].pc \in {"send", "cache", "failed"}
                /\ posts[p].pc = "cache" =>
                      posts'[p].pc \in {"cache", "done"}
                /\ posts[p].pc \in {"done", "failed"} =>
                      posts'[p] = posts[p]]_vars

\* The only call made has submitted and was rejected.
C27_Witness ==
    /\ Len(posts) = 1
    /\ posts[1] = Thrown
    /\ lastSubmit # NoTime

\* The function of task j has been called and has not settled.
FnRunning(j) == j \in DOMAIN queue /\ queue[j].stage = "running"

C12_SearchReturns ==
    \A k \in 1..MaxTasks :
       (k \in DOMAIN queue /\ queue[k].fn = "search")
          ~> (k \in DOMAIN queue /\ queue[k].returned)

\* C13: every polling cycle ends in the end and clears the flag, even if
\* the platform search never answers.
C13_CycleFinishes ==
    \A c \in 1..MaxCycles :
       (c \in DOMAIN cycles)
          ~> (c \in DOMAIN cycles /\ cycles[c].pc = "done"
                                   /\ ~isProcessingActions)

\* C28: every id that is marked processed is also written to the durable
\* cache, under a key processed/<id> of the account, in the end
\* (asynchronously).
C28_ProcessedPersisted ==
    \A id \in Ids :
       (id \in processedTweets)
          ~> (\E e \in cacheManager :
                 e[1] = <<"twitter/username/processed", id>>)

(***************************************************************************)
(* Properties of one polling cycle, under SpecCycle.                       *)
(***************************************************************************)

\* C14: an error of the platform search is not propagated: the catch block
\* of fetchSearchTweets answers a rejection with no tweets, whatever the
\* platform held; handleTwitterInteractions never rejects; and the flag is
\* set exactly while a cycle is active, so that the tick after a failed
\* cycle starts a new one.
C14_ErrorRecovered ==
    /\ \A batch \in Batches :
          FetchResult("rejected", batch, processedTweets,
                      initializationTime).tweets = <<>>
    /\ \A c \in DOMAIN cycles : cycles[c].pc # "rejected"
    /\ isProcessingActions <=> (ActiveCycles # {})

\* The search of the first cycle was rejected, and a later tick has started
\* a second cycle.
C14_Witness ==
    /\ Len(cycles) = 2
    /\ cycles[1] = SearchFailed
    /\ cycles[2].pc = "search"

\* The number of tweets of the batch of a cycle: those whose round has
\* ended (begun and not open) and those whose round has not.
BatchSize(cycle) == (cycle.tried - cycle.open) + cycle.left

\* C15: an exception in the round of one tweet is caught, and the rounds
\* of the remaining tweets are still made: a round that throws ends like
\* any other, with one tweet less left and the loop going on; the cycle
\* ends after its search only when no tweet is left, and then as many
\* rounds have begun as the batch had tweets, each ended once.
C15_RoundsIsolated ==
    [][\A c \in DOMAIN cycles :
         /\ (cycles[c].pc = "reply" /\ cycles'[c].pc # "reply") =>
               /\ cycles'[c].pc = "loop"
               /\ cycles'[c].left = cycles[c].left - 1
         /\ (cycles[c].pc \in {"loop", "imageGen", "reply"}
               /\ cycles'[c].pc = "done") =>
               /\ cycles[c].left = 0
               /\ cycles[c].open = 0
         /\ (cycles[c].pc \in {"loop", "imageGen", "reply"}
               /\ cycles'[c].pc # "done") =>
               /\ BatchSize(cycles'[c]) = BatchSize(cycles[c])
               /\ cycles'[c].tried <= BatchSize(cycles[c])]_vars

\* The first round of a batch of two has ended in its catch block, and the
\* round of the second tweet is in progress.
C15_Witness ==
    \E c \in DOMAIN cycles :
       /\ cycles[c].pc = "loop"
       /\ cycles[c].reply = "failed"
       /\ cycles[c].tried = 1
       /\ cycles[c].left = 1

NamesAgent(tweet) ==
    \E i \in DOMAIN tweet.text : ToLowerCase(tweet.text[i]) = BotHandle

HasWord(tweet, words) ==
    \E i \in DOMAIN tweet.text : ToLowerCase(tweet.text[i]) \in words

\* The text holds both "generate" and "image".
AsksToGenerateImage(tweet) ==
    HasWord(tweet, {"generate"}) /\ HasWord(tweet, {"image"})

\* The text holds one of the image-intent patterns.
HasImageIntent(tweet) ==
    \/ AsksToGenerateImage(tweet)
    \/ HasWord(tweet, {"draw", "picture"})
    \/ /\ HasWord(tweet, {"create", "make", "paint"})
       /\ HasWord(tweet, {"image", "picture"})

\* Cycle c begins the round of a tweet in this step.
RoundBegins(c) == cycles'[c].tried = cycles[c].tried + 1

\* C18: a tweet that names the agent, in any letter case, and holds both
\* "generate" and "image" always takes the image path: its round calls
\* handleImageGenerationRequest.
C18_DirectRequestTakesImagePath ==
    [][\A c \in DOMAIN cycles :
         (RoundBegins(c) /\ NamesAgent(cycles'[c].tweet[1])
                         /\ AsksToGenerateImage(cycles'[c].tweet[1])) =>
            /\ cycles'[c].pc = "imageGen"
            /\ cycles'[c].image]_vars

\* The round of a tweet that spells the handle and the keywords in mixed
\* case is awaiting image generation.
C18_Witness ==
    \E c \in DOMAIN cycles :
       /\ cycles[c].pc = "imageGen"
       /\ cycles[c].image
       /\ cycles[c].tweet = <<Tweet("b", 4,
                               <<"@Bot", "Generate", "IMAGE", "cat">>, FALSE)>>

\* C19: a tweet that names the agent and holds no image-intent keyword gets
\* a text reply, and no image generation is requested for it: its round
\* goes to the text reply without calling handleImageGenerationRequest.
C19_MentionGetsTextReply ==
    [][\A c \in DOMAIN cycles :
         (RoundBegins(c) /\ NamesAgent(cycles'[c].tweet[1])
                         /\ ~HasImageIntent(cycles'[c].tweet[1])) =>
            /\ ~cycles'[c].image
            /\ cycles'[c].pc = "reply"
            /\ cycles'[c].reply = "text"]_vars

\* C20: a tweet that neither names the agent nor holds a topic or trait
\* keyword (none is configured) is ignored: its round ends at once, without
\* image generation and without reply.
C20_UnaddressedIgnored ==
    [][\A c \in DOMAIN cycles :
         (RoundBegins(c) /\ ~NamesAgent(cycles'[c].tweet[1])) =>
            /\ ~cycles'[c].image
            /\ cycles'[c].pc = "loop"]_vars

(***************************************************************************)
(* Image generation and the reply of a round, under SpecCycle.             *)
(***************************************************************************)

\* Cycle c leaves the image step of a round in this step.
ImageStepEnds(c) == cycles[c].pc = "imageGen" /\ cycles'[c].pc # "imageGen"

\* C30: generateImage is never called with an empty or blank prompt: the
\* round of a tweet whose prompt is empty makes no call of the generator,
\* gets no attachment from handleImageGenerationRequest, and still goes on
\* to the reply step (the text reply when the tweet has an id to reply to,
\* the end of the round when it has none), never to the catch block.
C30_BlankPromptSkipsGenerator ==
    [][\A c \in DOMAIN cycles :
         /\ (RoundBegins(c) /\ cycles'[c].image
               /\ ImagePrompt(variant, cycles'[c].tweet[1]) = <<>>) =>
               /\ imageCount' = imageCount
               /\ imageTweet' = imageTweet
         /\ (ImageStepEnds(c)
               /\ ImagePrompt(variant, cycles[c].tweet[1]) = <<>>) =>
               IF cycles[c].tweet[1].id # NoId
                 THEN /\ cycles'[c].pc = "reply"
                      /\ cycles'[c].reply = "text"
                      /\ cycles'[c].url = "none"
                 ELSE /\ cycles'[c].pc = "loop"
                      /\ cycles'[c].reply = "none"]_vars

\* The round of a request without a subject ("@bot generate image") is at
\* its text reply, and the generator was never called.
C30_Witness ==
    /\ imageTweet = <<>>
    /\ \E c \in DOMAIN cycles :
          /\ cycles[c].pc = "reply"
          /\ cycles[c].reply = "text"
          /\ cycles[c].tweet = <<Tweet("a", 3, BareRequestText, FALSE)>>

\* C21: when image generation fails, handleImageGenerationRequest returns
\* null without throwing, and the tweet still gets a reply with text and
\* without image: a round that leaves the image step without attachment
\* goes on to the text reply.
C21_FailedImageGetsTextReply ==
    [][\A c \in DOMAIN cycles :
         (ImageStepEnds(c) /\ cycles[c].tweet[1].id # NoId
                           /\ cycles'[c].url = "none") =>
            /\ cycles'[c].pc = "reply"
            /\ cycles'[c].reply = "text"]_vars

\* C22: when the image was generated and the reply with the image fails
\* (the image cannot be fetched or stored, so that postTweet throws), the
\* tweet still gets a text reply: a round whose image reply ends without
\* being posted goes on to a text reply.
C22_FailedImageReplyGetsTextReply ==
    [][\A c \in DOMAIN cycles :
         (clientPost /\ cycles[c].pc = "reply" /\ cycles[c].reply = "image"
                     /\ cycles'[c] # cycles[c]
                     /\ cycles'[c].reply # "imagePosted") =>
            /\ cycles'[c].pc = "reply"
            /\ cycles'[c].reply = "text"]_vars

\* A tweet with an id, created after startup, that names the agent and
\* asks to generate an image.
FreshDirectRequest(tweet) ==
    /\ tweet.id # NoId
    /\ tweet.timestamp # NoTimestamp
    /\ tweet.timestamp * 1000 >= initializationTime
    /\ NamesAgent(tweet)
    /\ AsksToGenerateImage(tweet)

\* C23: the round of a fresh direct request for an image ends in the end
\* with a reply carrying the image posted, unless image generation failed
\* (the round is then at its text reply) or postTweet threw (the image
\* could not be fetched, the submission failed).
C23_RequestGetsImageReply ==
    \A c \in 1..MaxCycles :
       (c \in DOMAIN cycles /\ cycles[c].pc = "imageGen"
                            /\ FreshDirectRequest(cycles[c].tweet[1]))
          ~> (c \in DOMAIN cycles
                /\ \/ cycles[c].reply \in {"imagePosted", "failed"}
                   \/ cycles[c].pc = "reply" /\ cycles[c].reply = "text")

\* C24: the image a reply carries was passed to the storage first: the url
\* of the attachment of an image reply is the public url the storage
\* returned, not what the generator returned.
C24_ReplyReferencesStorageUrl ==
    \A c \in DOMAIN cycles :
       (cycles[c].pc = "reply" /\ cycles[c].reply = "image") =>
          cycles[c].url = "storage"

\* C36: once stop() has returned and until start() is called again, no
\* polling cycle starts, however many times start() was called before.
C36_NoCycleAfterStop ==
    [][processingTimer = NoTimer => Len(cycles') = Len(cycles)]_vars

\* C34: a tweet that fetchSearchTweets has just returned as accepted is
\* handled when it is passed to handleTweetInteraction: the call does not
\* return at the guard for processed ids, and a tweet that names the agent
\* and asks to generate an image reaches image generation.
C34_ReturnedItemHandled ==
    [][\A t \in Tweets, clock \in Clock :
          (handleTweetInteraction(t, clock) /\ t \in Range(returned)) =>
             /\ Guard(t, processedTweets, initializationTime, clock) # "seen"
             /\ (NamesAgent(t) /\ AsksToGenerateImage(t)) =>
                   imageTweet' = <<t>>]_vars

\* C33: whatever the interleaving of concurrent calls of
\* handleTweetInteraction for one id, image generation is invoked at most
\* once for it.
C33_OneGenerationUnderConcurrency ==
    Len(interactions) >= 2 => \A id \in Ids : imageCount[id] < 2

\* C31: when the cache write that records a posted tweet fails, the post
\* does not fail: postTweet returns and lastPostTime is the time of the
\* return.
C31_CacheFailureHarmless ==
    [][\A p \in DOMAIN posts :
          (/\ posts[p].pc = "cache"
           /\ posts'[p].pc # "cache"
           /\ cacheManager' = cacheManager) =>
             posts'[p] = Posted /\ lastPostTime' = now']_vars

\* The first post has returned although its record was not written, and a
\* later post has been submitted and answered.
C31_Witness ==
    /\ ~isDryRun
    /\ Len(posts) = 2
    /\ posts[1] = Posted
    /\ <<LastPostKey, PostCall(1)>> \notin cacheManager
    /\ posts[2].pc = "cache"
    /\ lastPostTime > 0

\* C35: a call of postTweet with an empty text throws at once: the call
\* waits for nothing, nothing is submitted to the platform, nothing is
\* written to the cache and lastPostTime keeps its value.  In a polling
\* cycle an error thrown in a round ends that round only: the loop is at
\* its next tweet.
C35_EmptyTextRefused ==
    [][/\ \A images \in BOOLEAN, kind \in PostKinds :
             postTweet(FALSE, images, kind) =>
                /\ posts' = Append(posts, Refused)
                /\ UNCHANGED <<inflight, cacheManager, lastPostTime,
                               lastSubmit, now>>
       /\ \A left \in 1..MaxBatch :
             LET round == [NewCycle EXCEPT !.pc = "reply", !.left = left,
                                           !.tried = 1, !.open = 1]
             IN  /\ Caught(round).pc = "loop"
                 /\ Caught(round).left = left - 1]_vars

\* A call with an empty text was refused after an earlier call had posted.
C35_Witness ==
    /\ ~isDryRun
    /\ Len(posts) = 2
    /\ posts[1] = Posted
    /\ posts[2] = Refused
    /\ inflight = {}

\* C32: two ClientBase objects built for one account identifier hold the
\* same platform client object, also once init() has been called.
C32_OneClientPerAccount ==
    \A i, j \in DOMAIN clients :
       clients[i].account = clients[j].account =>
          clients[i].twitterClient = clients[j].twitterClient

\* C38: TwitterClientInterface.start goes on to the post client and creates
\* the polling timer only when init() has logged in, set the profile and
\* emitted 'ready'; when the login or the profile fetch has failed, start()
\* rejects or is about to, 'ready' was not emitted and there is no timer.
C38_StartAfterInit ==
    /\ (startCall \in {"post", "interaction", "returned"} \/ timers # {}) =>
          /\ clients[1].pc = "ready"
          /\ clients[1].profile
          /\ clients[1].ready
    /\ clients[1].pc = "failed" =>
          /\ startCall \in {"init", "rejected"}
          /\ ~clients[1].ready
          /\ timers = {}
    /\ startCall = "rejected" => clients[1].pc = "failed"

\* start() has returned with the timer created after a successful init().
C38_Witness ==
    /\ startCall = "returned"
    /\ timers # {}
    /\ clients[1].ready

====
